---- MODULE Spec2Model ----
(***************************************************************************)
(* Model of exercises/08_finale: Matcher::new (the pattern compiler) and   *)
(* Matcher::match_string (the matching engine).                            *)
(*                                                                         *)
(* A Rust &str is modelled as the sequence of its UTF-8 bytes; a byte is   *)
(* written as a one-character string ("a", ".", "(") and the two bytes of  *)
(* the two-byte character U+00E9 as "C3", "A9".  Indices are byte offsets  *)
(* counted from 0, as in the source; slicing off a character boundary or   *)
(* past the end panics, as str indexing does.                              *)
(***************************************************************************)
EXTENDS Integers, Sequences, FiniteSets, TLC

VARIABLES
    text,         \* the pattern text handed to Matcher::new
    leftovers,    \* new: the unconsumed suffix of text
    tokens,       \* new: the vector being built
    pc,           \* "new" while new runs; "none" / "ready" once it returned
                  \* None / Some; "abort" when new ran out of memory;
                  \* "panicked" when match_string panicked
    matcher,      \* the Matcher returned by new
    called,       \* match_string has been called on the matcher
    string,       \* match_string: the candidate of the latest call
    substring,    \* match_string: the cursor when the latest call ended
    answer,       \* the result of the latest call that returned
    kept,         \* the caller holds the result of an earlier call:
    kept_string,  \*   its candidate
    kept_answer,  \*   its result
    between       \* a call with another candidate followed the kept one

vars == <<text, leftovers, tokens, pc, matcher,
          called, string, substring, answer,
          kept, kept_string, kept_answer, between>>

(***************************************************************************)
(* Bounds of the model                                                     *)
(***************************************************************************)
MaxPatChars == 4

MaxCandChars == 2

MaxExtraTokens == 2

(***************************************************************************)
(* str primitives                                                          *)
(***************************************************************************)
ContinuationBytes == {"A9"}

NoIndex == 0 - 1

starts_with(s, p) == Len(p) <= Len(s) /\ SubSeq(s, 1, Len(p)) = p

find_skipping_last(s, b) ==
    LET hits == {i \in 0..(Len(s) - 2) : s[i + 1] = b}
    IN  IF hits = {} THEN NoIndex
        ELSE CHOOSE i \in hits : \A j \in hits : i <= j

find(s, b) ==
    LET hits == {i \in 0..(Len(s) - 1) : s[i + 1] = b}
    IN  IF hits = {} THEN NoIndex
        ELSE CHOOSE i \in hits : \A j \in hits : i <= j

is_char_boundary(s, i) ==
    \/ i = 0
    \/ i = Len(s)
    \/ i > 0 /\ i < Len(s) /\ s[i + 1] \notin ContinuationBytes

SliceOk(s, from, to) ==
    /\ from <= to
    /\ to <= Len(s)
    /\ is_char_boundary(s, from)
    /\ is_char_boundary(s, to)

Slice(s, from, to) == SubSeq(s, from + 1, to)

RECURSIVE split(_)
split_dropping_empty(s) ==
    LET i == find(s, "|")
    IN  IF i = NoIndex THEN (IF s = <<>> THEN <<>> ELSE <<s>>)
        ELSE (IF i = 0 THEN <<>> ELSE <<Slice(s, 0, i)>>)
                 \o split(Slice(s, i + 1, Len(s)))

split(s) ==
    LET i == find(s, "|")
    IN  IF i = NoIndex THEN <<s>>
        ELSE <<Slice(s, 0, i)>> \o split(Slice(s, i + 1, Len(s)))

(***************************************************************************)
(* MatcherToken and Matcher                                                *)
(***************************************************************************)
RawText(t) == [kind |-> "RawText", text |-> t, variants |-> <<>>]

OneOfText(vs) == [kind |-> "OneOfText", text |-> <<>>, variants |-> vs]

WildCard == [kind |-> "WildCard", text |-> <<>>, variants |-> <<>>]

NoMatcher == [text |-> <<>>, tokens |-> <<>>, most_tokens_matched |-> 0]

SomeMatcher(t, toks) ==
    [text |-> t, tokens |-> toks, most_tokens_matched |-> 0]

(***************************************************************************)
(* Inputs                                                                  *)
(***************************************************************************)
PatternChars == {<<".">>, <<"(">>, <<")">>, <<"|">>, <<"a">>}

CandidateChars == {<<"a">>, <<"C3", "A9">>}

RECURSIVE Strings(_, _)
Strings(chars, n) ==
    IF n = 0 THEN {<<>>}
    ELSE LET shorter == Strings(chars, n - 1)
         IN  shorter \cup {s \o c : s \in shorter, c \in chars}

\* "abc(d|e|f)." and "abc(d|e|f." are the patterns of the repository's tests.
TestPattern == <<"a", "b", "c", "(", "d", "|", "e", "|", "f", ")", ".">>

BrokenPattern == <<"a", "b", "c", "(", "d", "|", "e", "|", "f", ".">>

SamplePatterns ==
    { TestPattern, BrokenPattern,
      <<"a", "b", "c">>,
      <<"C3", "A9", ".">>,
      <<"(", "a", "|", "C3", "A9", ")", ".">>,
      <<"(", "a", "|", "b", ")", "c">>,
      <<"(", "a", "|", "a", "b", ")", "c">>,
      <<"(", "a", "|", "a", "b", ")", "c", ".">> }

Patterns == Strings(PatternChars, MaxPatChars) \cup SamplePatterns

SampleCandidates ==
    { <<"a", "b", "c", "g", "e">>,
      <<"a", "b", "c", "d", "e">>,
      <<"a", "b", "c", "d", "C3", "A9">>,
      <<"a", "b", "c", "d">> }

Candidates == Strings(CandidateChars, MaxCandChars) \cup SampleCandidates

(***************************************************************************)
(* Matcher::new                                                            *)
(***************************************************************************)
Init ==
    /\ text \in Patterns
    /\ leftovers = text
    /\ tokens = <<>>
    /\ pc = "new"
    /\ matcher = NoMatcher
    /\ called = FALSE
    /\ string = <<>>
    /\ substring = <<>>
    /\ answer = <<>>
    /\ kept = FALSE
    /\ kept_string = <<>>
    /\ kept_answer = <<>>
    /\ between = FALSE

MatchVars ==
    <<called, string, substring, answer, kept, kept_string, kept_answer, between>>

next_separator(s) ==
    LET a == find(s, ".")
        b == find(s, "(")
    IN  IF a # NoIndex /\ b # NoIndex THEN (IF a < b THEN a ELSE b)
        ELSE IF a # NoIndex THEN a
        ELSE IF b # NoIndex THEN b
        ELSE NoIndex

AfterClose_keeping_marker(s, close_index) == Slice(s, close_index, Len(s))

AfterClose(s, close_index) == Slice(s, close_index + 1, Len(s))

NewWildCard ==
    /\ pc = "new"
    /\ Len(leftovers) > 0
    /\ starts_with(leftovers, <<".">>)
    /\ tokens' = Append(tokens, WildCard)
    /\ leftovers' = Slice(leftovers, 1, Len(leftovers))
    /\ UNCHANGED <<text, pc, matcher, MatchVars>>

NewMalformed ==
    /\ pc = "new"
    /\ Len(leftovers) > 0
    /\ ~starts_with(leftovers, <<".">>)
    /\ starts_with(leftovers, <<"(">>)
    /\ find(leftovers, ")") = NoIndex
    /\ pc' = "none"
    /\ tokens' = <<>>
    /\ UNCHANGED <<text, leftovers, matcher, MatchVars>>

NewOneOfText ==
    /\ pc = "new"
    /\ Len(leftovers) > 0
    /\ ~starts_with(leftovers, <<".">>)
    /\ starts_with(leftovers, <<"(">>)
    /\ find(leftovers, ")") # NoIndex
    /\ LET close_index == find(leftovers, ")")
           micro_tokens == OneOfText(split(Slice(leftovers, 1, close_index)))
       IN  /\ tokens' = Append(tokens, micro_tokens)
           /\ IF close_index + 1 < Len(leftovers)
              THEN /\ leftovers' = AfterClose(leftovers, close_index)
                   /\ UNCHANGED <<pc, matcher>>
              ELSE /\ pc' = "ready"
                   /\ matcher' = SomeMatcher(text, tokens')
                   /\ UNCHANGED leftovers
    /\ UNCHANGED <<text, MatchVars>>

NewRawText ==
    /\ pc = "new"
    /\ Len(leftovers) > 0
    /\ ~starts_with(leftovers, <<".">>)
    /\ ~starts_with(leftovers, <<"(">>)
    /\ next_separator(leftovers) # NoIndex
    /\ LET index == next_separator(leftovers)
       IN  /\ tokens' = Append(tokens, RawText(Slice(leftovers, 0, index)))
           /\ leftovers' = Slice(leftovers, index, Len(leftovers))
    /\ UNCHANGED <<text, pc, matcher, MatchVars>>

\* The branch of line 63 pushes the token and neither advances leftovers nor
\* leaves the loop, so it is taken again on the next iteration.
NewRawTextTail ==
    /\ pc = "new"
    /\ Len(leftovers) > 0
    /\ ~starts_with(leftovers, <<".">>)
    /\ ~starts_with(leftovers, <<"(">>)
    /\ next_separator(leftovers) = NoIndex
    /\ Len(tokens) < Len(text) + MaxExtraTokens
    /\ tokens' = Append(tokens, RawText(leftovers))
    /\ UNCHANGED <<text, leftovers, pc, matcher, MatchVars>>

\* The vector cannot grow for ever: the allocation fails and the process aborts.
NewOutOfMemory ==
    /\ pc = "new"
    /\ Len(leftovers) > 0
    /\ ~starts_with(leftovers, <<".">>)
    /\ ~starts_with(leftovers, <<"(">>)
    /\ next_separator(leftovers) = NoIndex
    /\ Len(tokens) >= Len(text) + MaxExtraTokens
    /\ pc' = "abort"
    /\ UNCHANGED <<text, leftovers, tokens, matcher, MatchVars>>

NewReturn ==
    /\ pc = "new"
    /\ Len(leftovers) = 0
    /\ pc' = "ready"
    /\ matcher' = SomeMatcher(text, tokens)
    /\ UNCHANGED <<text, leftovers, tokens, MatchVars>>

(***************************************************************************)
(* Matcher::match_string                                                   *)
(***************************************************************************)
Returned(ans, sub) == [panicked |-> FALSE, answer |-> ans, substring |-> sub]

Panicked(ans, sub) == [panicked |-> TRUE, answer |-> ans, substring |-> sub]

Pair(i, matched) == [token |-> i, matched |-> matched]

\* The inner loop of lines 93-99: the position of the first variant the
\* substring starts with, 0 when the loop runs out.
first_variant_longest(variants, sub) ==
    LET hits == {j \in 1..Len(variants) : starts_with(sub, variants[j])}
    IN  IF hits = {} THEN 0
        ELSE CHOOSE j \in hits :
                 \A k \in hits :
                     \/ Len(variants[k]) < Len(variants[j])
                     \/ Len(variants[k]) = Len(variants[j]) /\ j <= k

first_variant(variants, sub) ==
    LET hits == {j \in 1..Len(variants) : starts_with(sub, variants[j])}
    IN  IF hits = {} THEN 0
        ELSE CHOOSE j \in hits : \A k \in hits : j <= k

\* The loop of lines 82-107 from token i on (tokens are numbered from 1 here),
\* with the locals substring and answer.
RECURSIVE MatchFrom(_, _, _, _)
MatchFrom(toks, i, sub, ans) ==
    IF i > Len(toks) THEN Returned(ans, sub)
    ELSE
      LET token == toks[i] IN
      CASE token.kind = "RawText" ->
             LET n == Len(token.text) IN
             IF starts_with(sub, token.text)
             THEN IF SliceOk(sub, 0, n) /\ SliceOk(sub, n, Len(sub))
                  THEN MatchFrom(toks, i + 1, Slice(sub, n, Len(sub)),
                                 Append(ans, Pair(i, Slice(sub, 0, n))))
                  ELSE Panicked(ans, sub)
             ELSE Returned(ans, sub)
        [] token.kind = "OneOfText" ->
             LET j == first_variant(token.variants, sub) IN
             IF j = 0 THEN Returned(ans, sub)
             ELSE LET n == Len(token.variants[j]) IN
                  IF SliceOk(sub, 0, n) /\ SliceOk(sub, n, Len(sub))
                  THEN MatchFrom(toks, i + 1, Slice(sub, n, Len(sub)),
                                 Append(ans, Pair(i, Slice(sub, 0, n))))
                  ELSE Panicked(ans, sub)
        [] token.kind = "WildCard" ->
             IF SliceOk(sub, 0, 1) /\ SliceOk(sub, 1, Len(sub))
             THEN MatchFrom(toks, i + 1, Slice(sub, 1, Len(sub)),
                            Append(ans, Pair(i, Slice(sub, 0, 1))))
             ELSE Panicked(ans, sub)

AfterMatch_running_maximum(m, ans) ==
    [m EXCEPT !.most_tokens_matched =
        IF Len(ans) > m.most_tokens_matched THEN Len(ans)
        ELSE m.most_tokens_matched]

AfterMatch_draining(m, ans) ==
    [m EXCEPT !.most_tokens_matched = Len(ans),
              !.tokens = SubSeq(m.tokens, 1, Len(ans))]

AfterMatch(m, ans) == [m EXCEPT !.most_tokens_matched = Len(ans)]

\* One call matcher.match_string(s).  keep says whether the caller holds on to
\* the pair (s, result) of this call to compare it with later calls.
MatchString ==
    /\ pc = "ready"
    /\ \E s \in Candidates, keep \in BOOLEAN :
         LET r == MatchFrom(matcher.tokens, 1, s, <<>>) IN
         /\ called' = TRUE
         /\ string' = s
         /\ substring' = r.substring
         /\ IF r.panicked
            THEN /\ pc' = "panicked"
                 /\ UNCHANGED <<matcher, answer, kept, kept_string,
                                kept_answer, between>>
            ELSE /\ pc' = "ready"
                 /\ answer' = r.answer
                 /\ matcher' = AfterMatch(matcher, r.answer)
                 /\ IF keep
                    THEN /\ kept' = TRUE
                         /\ kept_string' = s
                         /\ kept_answer' = r.answer
                         /\ between' = FALSE
                    ELSE /\ between' = (between \/ (kept /\ s # kept_string))
                         /\ UNCHANGED <<kept, kept_string, kept_answer>>
    /\ UNCHANGED <<text, leftovers, tokens>>

Next ==
    \/ NewWildCard
    \/ NewMalformed
    \/ NewOneOfText
    \/ NewRawText
    \/ NewRawTextTail
    \/ NewOutOfMemory
    \/ NewReturn
    \/ MatchString

Spec == Init /\ [][Next]_vars

TypeOK ==
    /\ pc \in {"new", "none", "ready", "abort", "panicked"}
    /\ text \in Patterns
    /\ called \in BOOLEAN
    /\ kept \in BOOLEAN
    /\ between \in BOOLEAN

(***************************************************************************)
(* Vocabulary of the properties                                            *)
(***************************************************************************)
Contains(s, b) == \E i \in 1..Len(s) : s[i] = b

IsPrefix(p, s) == Len(p) <= Len(s) /\ \A i \in 1..Len(p) : s[i] = p[i]

\* The suffix is a literal run up to the end of the pattern.
FinalLiteralRun(s) == Len(s) > 0 /\ ~Contains(s, ".") /\ ~Contains(s, "(")

\* The suffix opens a group that is never closed.
Unterminated(s) == Len(s) > 0 /\ s[1] = "(" /\ ~Contains(s, ")")

RECURSIVE Join(_)
Join(vs) ==
    IF Len(vs) = 0 THEN <<>>
    ELSE IF Len(vs) = 1 THEN vs[1]
    ELSE vs[1] \o <<"|">> \o Join(Tail(vs))

RenderToken(t) ==
    IF t.kind = "WildCard" THEN <<".">>
    ELSE IF t.kind = "RawText" THEN t.text
    ELSE <<"(">> \o Join(t.variants) \o <<")">>

RECURSIVE Render(_)
Render(toks) ==
    IF toks = <<>> THEN <<>> ELSE RenderToken(Head(toks)) \o Render(Tail(toks))

\* The number of candidate bytes covered by the first k pairs of the answer.
RECURSIVE Consumed(_)
Consumed(k) == IF k = 0 THEN 0 ELSE Consumed(k - 1) + Len(answer[k].matched)

\* What is left of the candidate after the first k pairs of the answer.
Remaining(k) == SubSeq(string, Consumed(k) + 1, Len(string))

\* One whole character: a lead byte and the continuation bytes it announces.
IsOneChar(s) ==
    /\ Len(s) >= 1
    /\ s[1] \notin ContinuationBytes
    /\ Len(s) = (IF s[1] = "C3" THEN 2 ELSE 1)
    /\ \A i \in 2..Len(s) : s[i] \in ContinuationBytes

\* The token can be satisfied by what remains of the candidate.
Satisfiable(t, rem) ==
    IF t.kind = "RawText" THEN IsPrefix(t.text, rem)
    ELSE IF t.kind = "OneOfText"
         THEN \E j \in 1..Len(t.variants) : IsPrefix(t.variants[j], rem)
    ELSE Len(rem) > 0

\* Pair i of the answer is what token i accepts of what remained before it.
PairFits(i) ==
    LET t == matcher.tokens[i]
        rem == Remaining(i - 1)
        m == answer[i].matched
    IN  /\ answer[i].token = i
        /\ IsPrefix(m, rem)
        /\ IF t.kind = "RawText" THEN m = t.text
           ELSE IF t.kind = "OneOfText"
                THEN \E j \in 1..Len(t.variants) : m = t.variants[j]
           ELSE IsOneChar(m)

Returned1 == pc = "ready" /\ called

(***************************************************************************)
(* C1.  Matcher::new terminates for every pattern whose groups are closed: *)
(* when the unconsumed suffix is non-empty and holds neither '.' nor '(',  *)
(* one Literal token covering that suffix is emitted and the scan ends.    *)
(***************************************************************************)
C1_FinalLiteralEndsScan ==
    [][(pc = "new" /\ FinalLiteralRun(leftovers))
          => /\ tokens' = Append(tokens, RawText(leftovers))
             /\ (pc' = "ready" \/ leftovers' = <<>>)]_vars

(***************************************************************************)
(* C2.  Matcher::new returns None exactly when the scan stands at a '('    *)
(* with no ')' after it; None carries no Matcher, and any other value      *)
(* returned is a Matcher of the pattern.                                   *)
(***************************************************************************)
C2_NoneIffUnterminated ==
    /\ [](/\ pc = "none" => (Unterminated(leftovers) /\ matcher = NoMatcher)
          /\ pc = "ready" => (matcher.text = text /\ matcher.tokens = tokens))
    /\ [][/\ (pc = "new" /\ Unterminated(leftovers)) => pc' = "none"
          /\ (pc # "none" /\ pc' = "none")
                => (pc = "new" /\ Unterminated(leftovers))]_vars

C2_Witness == pc = "none" /\ text = BrokenPattern

(***************************************************************************)
(* C3.  match_string cannot fail: every call returns a (possibly empty)    *)
(* result and never aborts, also when a Wildcard token is evaluated with   *)
(* no candidate character left.                                            *)
(***************************************************************************)
C3_MatchNeverFails == pc # "panicked"

C5_ResultShape ==
    /\ Len(answer) <= Len(matcher.tokens)
    /\ \A i \in 1..Len(answer) : PairFits(i)
    /\ Len(answer) < Len(matcher.tokens)
          => ~Satisfiable(matcher.tokens[Len(answer) + 1], Remaining(Len(answer)))

C5_StopsAtFirstFailure == called => (pc = "ready" /\ C5_ResultShape)

C7_RenderRoundTrip == pc = "ready" => Render(matcher.tokens) = text

C7_Witness ==
    /\ pc = "ready" /\ ~called
    /\ text = TestPattern
    /\ Len(matcher.tokens) = 3

(***************************************************************************)
(* C8.  In every Matcher returned by Matcher::new every Literal text is    *)
(* non-empty, every string inside every Alternatives token is non-empty,   *)
(* and every Alternatives token has at least one entry.                    *)
(***************************************************************************)
C8_LiteralsNonEmpty ==
    \A i \in 1..Len(matcher.tokens) :
        matcher.tokens[i].kind = "RawText" => Len(matcher.tokens[i].text) > 0

C8_AlternativesHaveEntry ==
    \A i \in 1..Len(matcher.tokens) :
        matcher.tokens[i].kind = "OneOfText" => Len(matcher.tokens[i].variants) >= 1

C8_EntriesNonEmpty ==
    \A i \in 1..Len(matcher.tokens) :
        \A j \in 1..Len(matcher.tokens[i].variants) :
            Len(matcher.tokens[i].variants[j]) > 0

C8_AllTextsNonEmpty ==
    pc = "ready"
       => (C8_LiteralsNonEmpty /\ C8_AlternativesHaveEntry /\ C8_EntriesNonEmpty)

\* C8 as amended: every Literal text is non-empty and every Alternatives token
\* has at least one entry; an entry itself may be the empty string.
C8_Amended == pc = "ready" => (C8_LiteralsNonEmpty /\ C8_AlternativesHaveEntry)

C8_Witness ==
    /\ pc = "ready"
    /\ \E i \in 1..Len(matcher.tokens) : matcher.tokens[i].kind = "RawText"
    /\ \E i \in 1..Len(matcher.tokens) :
          /\ matcher.tokens[i].kind = "OneOfText"
          /\ \E j \in 1..Len(matcher.tokens[i].variants) :
                matcher.tokens[i].variants[j] = <<>>

C10_WildcardTakesOneChar ==
    /\ pc = "panicked" => substring = <<>>
    /\ Returned1 =>
          \A i \in 1..Len(answer) :
             matcher.tokens[answer[i].token].kind = "WildCard"
                => IsOneChar(answer[i].matched)

\* What does hold of the calls that return: the shape of C5 and C10.
ReturnedCallsAreWellShaped ==
    Returned1 => (C5_ResultShape /\ C10_WildcardTakesOneChar)

====
